---- MODULE Spec2Model ----
(***************************************************************************)
(* Model of simplidb's query front end: the nom-based tokenizer            *)
(* (src/src/lexer.rs) and the SELECT parser (src/src/parser.rs).           *)
(* Text is a sequence of one-character strings.  Every nom combinator is   *)
(* an operator returning a result record                                   *)
(*   [status, rest, out, err]                                              *)
(* with status "Ok", "Error" (nom::Err::Error, recoverable by alt and      *)
(* many0) or "Panic" (the expect() in tokenize_internal unwinding).        *)
(***************************************************************************)
EXTENDS Integers, Sequences, FiniteSets, TLC

VARIABLES text, pc, lexed, parsed

vars == <<text, pc, lexed, parsed>>

(***************************************************************************)
(* Bounds of the explored inputs.                                          *)
(***************************************************************************)
MaxLen == 3
MaxParenLen == 6
MaxWords == 5
MaxJoinWords == 4
MaxBody == 2
MaxCommentBody == 2

(***************************************************************************)
(* Characters.                                                             *)
(***************************************************************************)
Lower == <<"a","b","c","d","e","f","g","h","i","j","k","l","m",
           "n","o","p","q","r","s","t","u","v","w","x","y","z">>

Upper == <<"A","B","C","D","E","F","G","H","I","J","K","L","M",
           "N","O","P","Q","R","S","T","U","V","W","X","Y","Z">>

Digits == {"0","1","2","3","4","5","6","7","8","9"}

Range(f) == {f[i] : i \in DOMAIN f}

\* char::to_lowercase restricted to the ASCII characters of the model
to_lowercase_char(c) ==
  IF c \in Range(Upper) THEN Lower[CHOOSE i \in DOMAIN Upper : Upper[i] = c] ELSE c

\* char::to_uppercase restricted to the ASCII characters of the model
to_uppercase_char(c) ==
  IF c \in Range(Lower) THEN Upper[CHOOSE i \in DOMAIN Lower : Lower[i] = c] ELSE c

to_lowercase(s) == [i \in DOMAIN s |-> to_lowercase_char(s[i])]

to_uppercase(s) == [i \in DOMAIN s |-> to_uppercase_char(s[i])]

\* the predicate of take_while1 in identifier
is_identifier_character(c) ==
  c \in Range(Lower) \cup Range(Upper) \cup Digits \cup {"_"}

\* the predicate of take_while1 in whitespace
is_whitespace_character(c) == c \in {" ", "\n", "\t"}

\* variant: a literal also ends at a closing parenthesis
is_literal_character_no_paren(c) == c # "\"" /\ c # ")"

is_literal_character(c) == c # "\""

Drop(s, n) == SubSeq(s, n + 1, Len(s))

Take(s, n) == SubSeq(s, 1, n)

(***************************************************************************)
(* Results and tokens.                                                     *)
(***************************************************************************)
NoErr == [input |-> <<>>, code |-> "None"]

Ok(rest, out) == [status |-> "Ok", rest |-> rest, out |-> out, err |-> NoErr]

Error(input, code) ==
  [status |-> "Error", rest |-> input, out |-> <<>>,
   err |-> [input |-> input, code |-> code]]

Panic(msg) ==
  [status |-> "Panic", rest |-> <<>>, out |-> <<>>,
   err |-> [input |-> <<>>, code |-> msg]]

Keyword(t) == [kind |-> "Keyword", text |-> t, children |-> <<>>]

Identifier(t) == [kind |-> "Identifier", text |-> t, children |-> <<>>]

Literal(t) == [kind |-> "Literal", text |-> t, children |-> <<>>]

Comma == [kind |-> "Comma", text |-> <<>>, children |-> <<>>]

Parens(ts) == [kind |-> "Parens", text |-> <<>>, children |-> ts]

(***************************************************************************)
(* nom primitives over text.                                               *)
(***************************************************************************)
\* nom::bytes::complete::tag
tag(t, s) ==
  IF Len(s) >= Len(t) /\ Take(s, Len(t)) = t
  THEN Ok(Drop(s, Len(t)), t)
  ELSE Error(s, "Tag")

\* the character predicates handed to take_while, take_while1 and is_not
InClass(class, c) ==
  CASE class = "literal" -> is_literal_character(c)
    [] class = "whitespace" -> is_whitespace_character(c)
    [] class = "identifier" -> is_identifier_character(c)
    [] class = "not_newline" -> c # "\n"
    [] class = "not_space" -> c # " "
    [] class = "not_star_slash" -> c \notin {"*", "/"}

\* length of the longest prefix of s whose characters are all of the class,
\* scanning from position i
RECURSIVE RunLenFrom(_, _, _)
RunLenFrom(s, class, i) ==
  IF i > Len(s) \/ ~InClass(class, s[i]) THEN i - 1
  ELSE RunLenFrom(s, class, i + 1)

RunLen(s, class) == RunLenFrom(s, class, 1)

\* nom::bytes::complete::take_while
take_while(s, class) ==
  LET n == RunLen(s, class) IN Ok(Drop(s, n), Take(s, n))

\* nom::bytes::complete::take_while1
take_while1(s, class) ==
  LET n == RunLen(s, class) IN
  IF n = 0 THEN Error(s, "TakeWhile1") ELSE Ok(Drop(s, n), Take(s, n))

\* nom::bytes::complete::is_not("*/"): at least one character outside the set
is_not_star_slash(s) ==
  LET n == RunLen(s, "not_star_slash") IN
  IF n = 0 THEN Error(s, "IsNot") ELSE Ok(Drop(s, n), Take(s, n))

\* nom::combinator::eof
eof(s) == IF Len(s) = 0 THEN Ok(s, <<>>) ELSE Error(s, "Eof")

\* nom::branch::alt on two alternatives: the second is tried only when the
\* first ends in a recoverable error
alt(a, b) == IF a.status = "Error" THEN b ELSE a

(***************************************************************************)
(* Keyword resolution over token slices (lexer.rs 76-133).                 *)
(***************************************************************************)
\* str::split(" ")
RECURSIVE split(_)
split(s) ==
  LET n == RunLen(s, "not_space") IN
  IF n = Len(s) THEN <<s>> ELSE <<Take(s, n)>> \o split(Drop(s, n + 1))

\* variant: the identifier is compared without lowering it
lexer_take_identifier_case_sensitive(name, i) ==
  IF Len(i) = 0 THEN Error(i, "Eof")
  ELSE IF i[1].kind = "Identifier" /\ i[1].text = to_lowercase(name)
       THEN Ok(Drop(i, 1), Take(i, 1))
       ELSE Error(i, "TagBits")

\* lexer.rs take_identifier(name): case-insensitive match of one Identifier
lexer_take_identifier(name, i) ==
  IF Len(i) = 0 THEN Error(i, "Eof")
  ELSE IF /\ i[1].kind = "Identifier"
          /\ to_lowercase(i[1].text) = to_lowercase(name)
       THEN Ok(Drop(i, 1), Take(i, 1))
       ELSE Error(i, "TagBits")

\* variant: the catch-all accepts identifiers only
take_any_identifier_only(i) ==
  IF Len(i) = 0 THEN Error(i, "Eof")
  ELSE IF i[1].kind = "Identifier" THEN Ok(Drop(i, 1), i[1])
  ELSE Error(i, "TagBits")

take_any(i) ==
  IF Len(i) = 0 THEN Error(i, "Eof") ELSE Ok(Drop(i, 1), i[1])

\* the for loop of keyword(name): x = take_identifier(n)(x)?.0
RECURSIVE keyword_loop(_, _)
keyword_loop(words, x) ==
  IF Len(words) = 0 THEN Ok(x, <<>>)
  ELSE LET r == lexer_take_identifier(words[1], x) IN
       IF r.status # "Ok" THEN r ELSE keyword_loop(Drop(words, 1), r.rest)

\* variant: the keyword keeps the spelling of the table
keyword_not_uppercased(name, s) ==
  LET r == keyword_loop(split(name), s) IN
  IF r.status # "Ok" THEN r ELSE Ok(r.rest, Keyword(name))

keyword(name, s) ==
  LET r == keyword_loop(split(name), s) IN
  IF r.status # "Ok" THEN r ELSE Ok(r.rest, Keyword(to_uppercase(name)))

\* variant: the two-word phrase is missing from the table
KeywordTable_without_left_join ==
  << <<"s","e","l","e","c","t">>,
     <<"f","r","o","m">>,
     <<"w","h","e","r","e">>,
     <<"j","o","i","n">> >>

\* the phrases handed to keyword(...) in resolve_keywords, in alt order
KeywordTable ==
  << <<"s","e","l","e","c","t">>,
     <<"f","r","o","m">>,
     <<"w","h","e","r","e">>,
     <<"l","e","f","t"," ","j","o","i","n">>,
     <<"j","o","i","n">> >>

\* alt((keyword(..), ..., take_any)): first alternative that succeeds, else
\* the error of the last one
RECURSIVE resolve_alt_from(_, _)
resolve_alt_from(k, s) ==
  IF k > Len(KeywordTable) THEN take_any(s)
  ELSE LET r == keyword(KeywordTable[k], s) IN
       IF r.status = "Error" THEN resolve_alt_from(k + 1, s) ELSE r

resolve_alt(s) == resolve_alt_from(1, s)

\* many0 over token slices
RECURSIVE resolve_many0(_, _)
resolve_many0(i, acc) ==
  LET r == resolve_alt(i) IN
  IF r.status = "Error" THEN Ok(i, acc)
  ELSE IF r.status # "Ok" THEN r
  ELSE IF Len(r.rest) = Len(i) THEN Error(i, "Many0")
  ELSE resolve_many0(r.rest, Append(acc, r.out))

resolve_keywords(s) == resolve_many0(s, <<>>)

\* nom::combinator::all_consuming applied to an already computed result
all_consuming(r) ==
  IF r.status # "Ok" THEN r
  ELSE IF Len(r.rest) = 0 THEN r
  ELSE Error(r.rest, "Eof")

(***************************************************************************)
(* Scanner productions (lexer.rs 24-74, 135-150).                          *)
(***************************************************************************)
literal(s) ==
  LET a == tag(<<"\"">>, s) IN
  IF a.status # "Ok" THEN a ELSE
  LET b == take_while(a.rest, "literal") IN
  LET c == tag(<<"\"">>, b.rest) IN
  IF c.status # "Ok" THEN c ELSE Ok(c.rest, <<Literal(b.out)>>)

const_token(name, token, s) ==
  LET a == tag(name, s) IN
  IF a.status # "Ok" THEN a ELSE Ok(a.rest, <<token>>)

whitespace(s) ==
  LET a == take_while1(s, "whitespace") IN
  IF a.status # "Ok" THEN a ELSE Ok(a.rest, <<>>)

identifier(s) ==
  LET a == take_while1(s, "identifier") IN
  IF a.status # "Ok" THEN a ELSE Ok(a.rest, <<Identifier(a.out)>>)

line_comment(s) ==
  LET a == tag(<<"-", "-">>, s) IN
  IF a.status # "Ok" THEN a ELSE
  LET b == take_while(a.rest, "not_newline") IN
  LET c == alt(tag(<<"\n">>, b.rest), eof(b.rest)) IN
  IF c.status # "Ok" THEN c ELSE Ok(c.rest, <<>>)

block_comment(s) ==
  LET a == tag(<<"/", "*">>, s) IN
  IF a.status # "Ok" THEN a ELSE
  LET b == is_not_star_slash(a.rest) IN
  IF b.status # "Ok" THEN b ELSE
  LET c == tag(<<"*", "/">>, b.rest) IN
  IF c.status # "Ok" THEN c ELSE Ok(c.rest, <<>>)

comment(s) == alt(line_comment(s), block_comment(s))

RECURSIVE tokenize_internal(_)
RECURSIVE parens(_)
RECURSIVE lex_alt(_)
RECURSIVE lex_many0(_, _)

\* variant: the group forgets its children
parens_close_dropping_inner(b, c) ==
  IF c.status # "Ok" THEN c ELSE Ok(c.rest, <<Parens(<<>>)>>)

\* parens, from tag(")") on: b is the result of the inner tokenize_internal
parens_close(b, c) ==
  IF c.status # "Ok" THEN c ELSE Ok(c.rest, <<Parens(b.out)>>)

\* parens, after the inner tokenize_internal
parens_inner(b) ==
  IF b.status # "Ok" THEN b ELSE parens_close(b, tag(<<")">>, b.rest))

\* variant: the children of a group are the scanned tokens, not resolved
parens_open_unresolved(a) ==
  IF a.status # "Ok" THEN a ELSE parens_inner(lex_many0(a.rest, <<>>))

\* parens, after tag("(")
parens_open(a) ==
  IF a.status # "Ok" THEN a ELSE parens_inner(tokenize_internal(a.rest))

parens(s) == parens_open(tag(<<"(">>, s))

\* alt((comment, parens, literal, const_token(","), whitespace, identifier))
lex_alt(s) ==
  alt(comment(s),
  alt(parens(s),
  alt(literal(s),
  alt(const_token(<<",">>, Comma, s),
  alt(whitespace(s), identifier(s))))))

\* one round of many0: r is the result of the alternatives at s
lex_many0_step(s, acc, r) ==
  IF r.status = "Error" THEN Ok(s, acc)
  ELSE IF r.status # "Ok" THEN r
  ELSE IF Len(r.rest) = Len(s) THEN Error(s, "Many0")
  ELSE lex_many0(r.rest, acc \o r.out)

\* many0 over text; acc collects the flattened Option<Token> outputs
lex_many0(s, acc) == lex_many0_step(s, acc, lex_alt(s))

\* tokenize_internal, after keyword resolution: the expect and the result
tokenize_internal_expect(m, k) ==
  IF k.status # "Ok" THEN Panic("resolve keywords failed")
  ELSE Ok(m.rest, k.out)

\* tokenize_internal, after many0
tokenize_internal_resolve(m) ==
  IF m.status # "Ok" THEN m
  ELSE tokenize_internal_expect(m, all_consuming(resolve_keywords(m.out)))

tokenize_internal(s) == tokenize_internal_resolve(lex_many0(s, <<>>))

\* variant: tokenize without all_consuming
tokenize_without_all_consuming(s) == tokenize_internal(s)

tokenize(s) == all_consuming(tokenize_internal(s))

(***************************************************************************)
(* Parser (parser.rs).                                                     *)
(***************************************************************************)
NoParseErr == [kind |-> "None", msg |-> "", name |-> <<>>, tokens |-> <<>>, lex |-> NoErr]

\* SqlParseError::Eof
ErrEof == [NoParseErr EXCEPT !.kind = "Eof"]

\* SqlParseError::CustomError("identifier not matched")
ErrIdentifier ==
  [NoParseErr EXCEPT !.kind = "CustomError", !.msg = "identifier not matched"]

\* SqlParseError::CustomError(format!("keyword: {:?} not matched", name))
ErrKeyword(name) ==
  [NoParseErr EXCEPT !.kind = "CustomError",
                     !.msg = "keyword not matched", !.name = name]

\* format!("there are remaining tokens that were not parsed: {:?}", remaining)
ErrRemaining(tokens) ==
  [NoParseErr EXCEPT !.kind = "String",
                     !.msg = "there are remaining tokens that were not parsed",
                     !.tokens = tokens]

\* tokenize(s).map_err(|e| e.to_string())
ErrLex(e) == [NoParseErr EXCEPT !.kind = "Lex", !.lex = e]

NoValue == [columns |-> <<>>, source |-> [kind |-> "None", name |-> <<>>]]

Datastore(name) == [kind |-> "Datastore", name |-> name]

SelectExpression(columns, source) == [columns |-> columns, source |-> source]

POk(rest, out) == [status |-> "Ok", rest |-> rest, out |-> out, err |-> NoParseErr]

PErr(e) == [status |-> "Error", rest |-> <<>>, out |-> <<>>, err |-> e]

\* variant: the identifier is lowered on capture
parser_take_identifier_lowercased(s) ==
  IF Len(s) = 0 THEN PErr(ErrEof)
  ELSE IF s[1].kind = "Identifier" THEN POk(Drop(s, 1), to_lowercase(s[1].text))
  ELSE PErr(ErrIdentifier)

\* parser.rs take_identifier
parser_take_identifier(s) ==
  IF Len(s) = 0 THEN PErr(ErrEof)
  ELSE IF s[1].kind = "Identifier" THEN POk(Drop(s, 1), s[1].text)
  ELSE PErr(ErrIdentifier)

\* variant: an exhausted token stream reported as a keyword mismatch
take_keyword_without_eof(name, i) ==
  IF Len(i) > 0 /\ i[1].kind = "Keyword"
     /\ to_lowercase(i[1].text) = to_lowercase(name)
  THEN POk(Drop(i, 1), Take(i, 1))
  ELSE PErr(ErrKeyword(name))

take_keyword(name, i) ==
  IF Len(i) = 0 THEN PErr(ErrEof)
  ELSE IF /\ i[1].kind = "Keyword"
          /\ to_lowercase(i[1].text) = to_lowercase(name)
       THEN POk(Drop(i, 1), Take(i, 1))
       ELSE PErr(ErrKeyword(name))

KwSELECT == <<"S","E","L","E","C","T">>

KwFROM == <<"F","R","O","M">>

\* parse_internal, the result: b and d are the two captured identifiers
parse_internal_result(b, d) ==
  IF d.status # "Ok" THEN d
  ELSE POk(d.rest, SelectExpression(<<b.out>>, Datastore(d.out)))

\* parse_internal, after take_keyword("FROM")
parse_internal_table(b, c) ==
  IF c.status # "Ok" THEN c
  ELSE parse_internal_result(b, parser_take_identifier(c.rest))

\* parse_internal, after the first take_identifier
parse_internal_from(b) ==
  IF b.status # "Ok" THEN b
  ELSE parse_internal_table(b, take_keyword(KwFROM, b.rest))

\* parse_internal, after take_keyword("SELECT")
parse_internal_column(a) ==
  IF a.status # "Ok" THEN a
  ELSE parse_internal_from(parser_take_identifier(a.rest))

parse_internal(s) == parse_internal_column(take_keyword(KwSELECT, s))

\* variant: parse without the check of the remaining tokens
parse_remaining_ignored(p) ==
  IF p.status # "Ok"
  THEN [status |-> "Err", value |-> NoValue, err |-> p.err]
  ELSE [status |-> "Ok", value |-> p.out, err |-> NoParseErr]

\* parse, after parse_internal: the check of the remaining tokens
parse_remaining(p) ==
  IF p.status # "Ok"
  THEN [status |-> "Err", value |-> NoValue, err |-> p.err]
  ELSE IF Len(p.rest) # 0
  THEN [status |-> "Err", value |-> NoValue, err |-> ErrRemaining(p.rest)]
  ELSE [status |-> "Ok", value |-> p.out, err |-> NoParseErr]

\* parse, after tokenize; a panic of tokenize unwinds through it
parse_tokens(t) ==
  IF t.status = "Panic"
  THEN [status |-> "Panic", value |-> NoValue, err |-> NoParseErr]
  ELSE IF t.status # "Ok"
  THEN [status |-> "Err", value |-> NoValue, err |-> ErrLex(t.err)]
  ELSE parse_remaining(parse_internal(t.out))

\* parse: Result<SelectExpression, String>
parse(s) == parse_tokens(tokenize(s))

(***************************************************************************)
(* Input texts.                                                            *)
(***************************************************************************)
SeqsUpTo(S, n) == UNION {[1..k -> S] : k \in 0..n}

RECURSIVE JoinWords(_)
JoinWords(ws) ==
  IF Len(ws) = 0 THEN <<>>
  ELSE IF Len(ws) = 1 THEN ws[1]
  ELSE ws[1] \o <<" ">> \o JoinWords(Drop(ws, 1))

Alphabet == {"(", ")", "\"", ",", " ", "a", "#", "-", "\n"}

CharTexts == SeqsUpTo(Alphabet, MaxLen)

ParenTexts == SeqsUpTo({"(", ")"}, MaxParenLen)

QueryVocab ==
  { KwSELECT, <<"X","y">>, KwFROM, <<"t">> }

QueryTexts == {JoinWords(ws) : ws \in SeqsUpTo(QueryVocab, MaxWords)}

JoinVocab ==
  { <<"l","e","f","t">>, <<"J","O","I","N">>, <<"t","1">>, <<"(">>, <<")">> }

JoinTexts == {JoinWords(ws) : ws \in SeqsUpTo(JoinVocab, MaxJoinWords)}

CaseVariants(p) ==
  { [i \in DOMAIN p |-> IF b[i] THEN to_uppercase_char(p[i]) ELSE p[i]] :
      b \in [DOMAIN p -> BOOLEAN] }

KeywordTexts == UNION {CaseVariants(KeywordTable[k]) : k \in DOMAIN KeywordTable}

LiteralBodies ==
  SeqsUpTo(Alphabet \ {"\""}, MaxBody)
    \cup {JoinWords(ws) : ws \in SeqsUpTo(JoinVocab, 2)}
    \cup {<<"-","-","a"," ","/","*","a","*","/">>}

LiteralTexts ==
  {<<"\"">> \o b \o <<"\"">> : b \in LiteralBodies}
    \cup {<<"\"">> \o b : b \in LiteralBodies}

\* the inputs of the unit tests and of the documented examples
ExampleTexts ==
  { <<"(","\"",")","(","\"",")">>,
    <<"\"","a","\"",",",",","\"","b","\"">>,
    <<"i","d","1","-","-","i","d","2","\n","i","d","3">>,
    JoinWords(<<KwSELECT, <<"x",",","y">>, KwFROM, <<"t","1">>,
                <<"L","E","F","T">>, <<"J","O","I","N">>, <<"t","2">>,
                <<"J","O","I","N">>, <<"t","3">> >>),
    JoinWords(<<KwSELECT, <<"x">>, KwFROM,
                <<"(">> \o KwSELECT, <<"y">>, KwFROM, <<"t",")">> >>),
    JoinWords(<<KwSELECT, <<"x">>, KwFROM, <<"t">>, <<"E","X","T","R","A">> >>),
    JoinWords(<<<<"s","e","l","e","c","t">>, <<"x">>, <<"f","r","o","m">>, <<"t">> >>),
    JoinWords(<<KwSELECT, <<"x",",","y">>, KwFROM, <<"t">> >>),
    JoinWords(<<KwSELECT, <<",">>, KwFROM, <<"t">> >>),
    JoinWords(<<KwSELECT, <<"x">>, <<",">>, <<"t">> >>),
    JoinWords(<<KwSELECT, <<"x">>, KwFROM, <<"(",")">> >>),
    JoinWords(<<<<"\"","a","\"">>, <<"x">>, KwFROM, <<"t">> >>),
    JoinWords(<<<<",">>, <<"(","l","e","f","t",",","j","o","i","n",")">> >>),
    <<"a","*","(","a",")">>,
    <<"(","a","#","b",")">>,
    <<"(","(","#",")",")">> }

CommentBodies == SeqsUpTo({"a", "*", "/", "\n"}, MaxCommentBody)

\* a line comment with and without its newline, and a block comment
Comments ==
  {<<"-","-">> \o b \o <<"\n">> : b \in CommentBodies}
    \cup {<<"-","-">> \o b : b \in CommentBodies}
    \cup {<<"/","*">> \o b \o <<"*","/">> : b \in CommentBodies}

CommentTexts ==
  {pre \o c \o post :
     pre \in {<<>>, <<"l","e","f","t">>},
     c \in Comments,
     post \in {<<>>, <<"b">>, <<"j","o","i","n">>}}

\* the words that keyword resolution turns into a Keyword on their own
ReservedWords ==
  { <<"s","e","l","e","c","t">>, <<"f","r","o","m">>,
    <<"w","h","e","r","e">>, <<"j","o","i","n">> }

\* SELECT c FROM t where c or t is a word of the keyword table in some case
ReservedNameTexts ==
  UNION { {JoinWords(<<KwSELECT, w, KwFROM, <<"t">> >>),
           JoinWords(<<KwSELECT, <<"x">>, KwFROM, w>>)} :
          w \in UNION {CaseVariants(p) : p \in ReservedWords} }

Inputs ==
  CharTexts \cup ParenTexts \cup QueryTexts \cup JoinTexts
    \cup KeywordTexts \cup LiteralTexts \cup ExampleTexts
    \cup CommentTexts \cup ReservedNameTexts

(***************************************************************************)
(* State machine: a caller holding one text calls tokenize and parse.      *)
(***************************************************************************)
NotCalled == [status |-> "NotCalled"]

Init ==
  /\ text \in Inputs
  /\ pc = "ready"
  /\ lexed = NotCalled
  /\ parsed = NotCalled

TokenizeCall ==
  /\ pc = "ready"
  /\ lexed' = tokenize(text)
  /\ pc' = "tokenized"
  /\ UNCHANGED <<text, parsed>>

ParseCall ==
  /\ pc = "tokenized"
  /\ parsed' = parse(text)
  /\ pc' = "parsed"
  /\ UNCHANGED <<text, lexed>>

Next == TokenizeCall \/ ParseCall

Spec == Init /\ [][Next]_vars

TypeOK ==
  /\ pc \in {"ready", "tokenized", "parsed"}
  /\ (pc = "ready") <=> (lexed.status = "NotCalled")
  /\ (pc = "parsed") <=> (parsed.status # "NotCalled")

(***************************************************************************)
(* Vocabulary of the properties.                                           *)
(***************************************************************************)
Count(s, c) == Cardinality({i \in DOMAIN s : s[i] = c})

\* parenthesis depth in front of position i
DepthBefore(s, i) == Count(Take(s, i - 1), "(") - Count(Take(s, i - 1), ")")

NoLiteralNoComment(s) == \A i \in DOMAIN s : s[i] \notin {"\"", "-", "/"}

\* a ')' or a character of no production, with as many '(' as ')' before it
BadAtTopLevel(s) ==
  \E i \in DOMAIN s : s[i] \in {")", "#", "*"} /\ DepthBefore(s, i) = 0

\* the flat token sequence of the top level, before keyword resolution
FlatTokens(s) == lex_many0(s, <<>>).out

\* C1: tokenize never succeeds leaving input unconsumed, and a text free of
\* literals and comments that has at top level an unmatched ')' or a
\* character of no production makes tokenize fail.
C1_WholeInputOrFail ==
  pc # "ready" =>
    /\ lexed.status = "Ok" => lexed.rest = <<>>
    /\ (NoLiteralNoComment(text) /\ BadAtTopLevel(text)) => lexed.status = "Error"

\* tokens were scanned in front of a top-level ')' and tokenize failed
C1_Witness ==
  /\ pc = "tokenized"
  /\ lexed.status = "Error"
  /\ NoLiteralNoComment(text)
  /\ \E i \in DOMAIN text : text[i] = ")" /\ DepthBefore(text, i) = 0
  /\ Len(FlatTokens(text)) > 0

IsSelectFrom(ts) ==
  /\ Len(ts) >= 4
  /\ ts[1] = Keyword(KwSELECT)
  /\ ts[2].kind = "Identifier"
  /\ ts[3] = Keyword(KwFROM)
  /\ ts[4].kind = "Identifier"

\* C2: parse succeeds exactly when tokenize yields the four tokens
\* Keyword SELECT, Identifier c, Keyword FROM, Identifier t, and the result
\* is then the one-column expression over Datastore t with c and t verbatim.
C2_ParseIsSelectFrom ==
  pc = "parsed" =>
    /\ (parsed.status = "Ok") <=>
         (lexed.status = "Ok" /\ Len(lexed.out) = 4 /\ IsSelectFrom(lexed.out))
    /\ parsed.status = "Ok" =>
         /\ parsed.value =
              SelectExpression(<<lexed.out[2].text>>, Datastore(lexed.out[4].text))
         /\ Len(parsed.value.columns) = 1
         /\ parsed.value.source.kind = "Datastore"

\* a mixed-case column name came through a successful parse unchanged
C2_Witness ==
  /\ pc = "parsed"
  /\ parsed.status = "Ok"
  /\ text = JoinWords(<<KwSELECT, <<"X","y">>, KwFROM, <<"t">> >>)
  /\ parsed.value.columns = << <<"X","y">> >>
  /\ parsed.value.source = Datastore(<<"t">>)

RECURSIVE Render(_)
\* the text of a sequence of Parens trees
Render(ts) ==
  IF Len(ts) = 0 THEN <<>>
  ELSE <<"(">> \o Render(ts[1].children) \o <<")">> \o Render(Drop(ts, 1))

RECURSIVE OnlyParens(_)
OnlyParens(ts) ==
  \A i \in DOMAIN ts : ts[i].kind = "Parens" /\ OnlyParens(ts[i].children)

Max(S) == CHOOSE m \in S : \A n \in S : n <= m

RECURSIVE TreeDepth(_)
TreeDepth(ts) ==
  IF Len(ts) = 0 THEN 0
  ELSE Max({1 + TreeDepth(ts[i].children) : i \in DOMAIN ts})

NestDepth(s) == Max({0} \cup {DepthBefore(s, i + 1) : i \in DOMAIN s})

IsParenText(s) == \A i \in DOMAIN s : s[i] \in {"(", ")"}

Balanced(s) ==
  /\ Count(s, "(") = Count(s, ")")
  /\ \A i \in DOMAIN s : DepthBefore(s, i + 1) >= 0

\* some '(' is never closed
HasUnmatchedOpen(s) ==
  \E i \in DOMAIN s :
    /\ s[i] = "("
    /\ \A j \in i..Len(s) :
         Count(SubSeq(s, i, j), "(") > Count(SubSeq(s, i, j), ")")

\* C3: over the alphabet of the two parentheses, a properly nested text
\* tokenizes to the Parens trees that mirror it (same order, same depth) and
\* a text with an unmatched '(' fails.
C3_ParensMirrorNesting ==
  (pc # "ready" /\ IsParenText(text)) =>
    /\ Balanced(text) =>
         /\ lexed.status = "Ok"
         /\ OnlyParens(lexed.out)
         /\ Render(lexed.out) = text
         /\ TreeDepth(lexed.out) = NestDepth(text)
    /\ HasUnmatchedOpen(text) => lexed.status = "Error"

\* "(())()" gave a nested group followed by a sibling
C3_Witness ==
  /\ pc = "tokenized"
  /\ text = <<"(","(",")",")","(",")">>
  /\ lexed.out = <<Parens(<<Parens(<<>>)>>), Parens(<<>>)>>

WordLeft == <<"l","e","f","t">>

WordJoin == <<"j","o","i","n">>

UpperLeftJoin == <<"L","E","F","T"," ","J","O","I","N">>

UpperJoin == <<"J","O","I","N">>

IsWord(tok, w) ==
  /\ tok.kind = "Identifier"
  /\ Len(tok.text) = Len(w)
  /\ \A i \in DOMAIN w : tok.text[i] \in {w[i], to_uppercase_char(w[i])}

\* "left" directly followed by "join"
LeftJoinAt(f) == {i \in 1..(Len(f) - 1) : IsWord(f[i], WordLeft) /\ IsWord(f[i + 1], WordJoin)}

\* "join" not directly preceded by "left"
LoneJoinAt(f) ==
  {i \in DOMAIN f : IsWord(f[i], WordJoin) /\ (i = 1 \/ ~IsWord(f[i - 1], WordLeft))}

\* "left" not directly followed by "join"
LoneLeftAt(f) ==
  {i \in DOMAIN f : IsWord(f[i], WordLeft) /\ (i = Len(f) \/ ~IsWord(f[i + 1], WordJoin))}

IsLeftIdentifier(tok) == IsWord(tok, WordLeft)

\* the "left" identifiers of f that no "join" follows, in order
LoneLefts(f) ==
  LET RECURSIVE From(_)
      From(i) ==
        IF i > Len(f) THEN <<>>
        ELSE IF i \in LoneLeftAt(f) THEN <<f[i]>> \o From(i + 1)
        ELSE From(i + 1)
  IN From(1)

\* C4: every "left" "join" pair of identifiers becomes one Keyword LEFT JOIN,
\* never Identifier left followed by Keyword JOIN; a "join" not preceded by
\* "left" becomes Keyword JOIN; a "left" not followed by "join" stays an
\* Identifier, unchanged.
C4_LongestMatchLeftJoin ==
  pc # "ready" =>
    LET f == FlatTokens(text)
        r == resolve_keywords(f).out IN
    /\ Count(r, Keyword(UpperLeftJoin)) = Cardinality(LeftJoinAt(f))
    /\ Count(r, Keyword(UpperJoin)) = Cardinality(LoneJoinAt(f))
    /\ SelectSeq(r, IsLeftIdentifier) = LoneLefts(f)
    /\ \A i \in 1..(Len(r) - 1) :
         ~(IsLeftIdentifier(r[i]) /\ r[i + 1] = Keyword(UpperJoin))

\* "left left JOIN JOIN": a surviving left, a LEFT JOIN and a separate JOIN
C4_Witness ==
  /\ pc = "tokenized"
  /\ lexed.status = "Ok"
  /\ lexed.out = <<Identifier(WordLeft), Keyword(UpperLeftJoin), Keyword(UpperJoin)>>

\* the phrases of the keyword table as the lexer has to render them
UpperPhrases ==
  << KwSELECT, KwFROM, <<"W","H","E","R","E">>, UpperLeftJoin, UpperJoin >>

IsCaseVariant(s, p) ==
  /\ Len(s) = Len(p)
  /\ \A i \in DOMAIN p : s[i] \in {p[i], to_uppercase_char(p[i])}

\* C5: every upper/lower-case variant of a phrase of the keyword table
\* tokenizes to the single Keyword token holding the phrase in upper case,
\* and tokenizing the text of a produced Keyword token gives that token back.
C5_KeywordCaseInsensitive ==
  pc # "ready" =>
    /\ \A k \in DOMAIN KeywordTable :
         IsCaseVariant(text, KeywordTable[k]) =>
           /\ lexed.status = "Ok"
           /\ lexed.rest = <<>>
           /\ lexed.out = <<Keyword(UpperPhrases[k])>>
    /\ lexed.status = "Ok" =>
         \A i \in DOMAIN lexed.out :
           lexed.out[i].kind = "Keyword" =>
             LET again == tokenize(lexed.out[i].text) IN
             again.status = "Ok" /\ again.out = <<lexed.out[i]>>

\* "lEfT JoIn" became Keyword LEFT JOIN
C5_Witness ==
  /\ pc = "tokenized"
  /\ text = <<"l","E","f","T"," ","J","o","I","n">>
  /\ lexed.out = <<Keyword(UpperLeftJoin)>>

\* C6: when the tokens start with SELECT identifier FROM identifier and more
\* tokens follow, parse fails with the trailing-tokens error listing exactly
\* the tokens after the fourth.
C6_TrailingTokensError ==
  (pc = "parsed" /\ lexed.status = "Ok"
     /\ IsSelectFrom(lexed.out) /\ Len(lexed.out) > 4) =>
    /\ parsed.status = "Err"
    /\ parsed.value = NoValue
    /\ parsed.err = ErrRemaining(Drop(lexed.out, 4))

\* SELECT x FROM t EXTRA failed naming Identifier EXTRA
C6_Witness ==
  /\ pc = "parsed"
  /\ text = JoinWords(<<KwSELECT, <<"x">>, KwFROM, <<"t">>, <<"E","X","T","R","A">> >>)
  /\ parsed.status = "Err"
  /\ parsed.err.tokens = <<Identifier(<<"E","X","T","R","A">>)>>

\* what step k of the grammar expects of a token
StepMatches(k, tok) ==
  CASE k = 1 -> tok = Keyword(KwSELECT)
    [] k = 2 -> tok.kind = "Identifier"
    [] k = 3 -> tok = Keyword(KwFROM)
    [] k = 4 -> tok.kind = "Identifier"

StepFails(k, ts) == k > Len(ts) \/ ~StepMatches(k, ts[k])

\* C7: the error of parse is that of the first of the four steps that does
\* not match: Eof when the tokens are exhausted there, keyword-not-matched
\* naming the expected keyword at a keyword step, identifier-not-matched at
\* an identifier step.
C7_FirstMismatchDecides ==
  (pc = "parsed" /\ lexed.status = "Ok") =>
    \A k \in 1..4 :
      (StepFails(k, lexed.out) /\ \A j \in 1..(k - 1) : ~StepFails(j, lexed.out)) =>
        /\ parsed.status = "Err"
        /\ parsed.err =
             IF k > Len(lexed.out) THEN ErrEof
             ELSE IF k = 1 THEN ErrKeyword(KwSELECT)
             ELSE IF k = 3 THEN ErrKeyword(KwFROM)
             ELSE ErrIdentifier

\* SELECT FROM t failed at the second step although later tokens would fail too
C7_Witness ==
  /\ pc = "parsed"
  /\ text = JoinWords(<<KwSELECT, KwFROM, <<"t">> >>)
  /\ parsed.err = ErrIdentifier

\* C8: keyword resolution consumes every token sequence the scanner
\* produces, so tokenize and parse never panic: they return Ok or an error.
C8_ResolveKeywordsTotal ==
  pc # "ready" =>
    LET r == resolve_keywords(FlatTokens(text)) IN
    /\ r.status = "Ok"
    /\ r.rest = <<>>
    /\ lexed.status \in {"Ok", "Error"}
    /\ pc = "parsed" => parsed.status \in {"Ok", "Err"}

\* a comma and a group holding a comma were resolved, and parse then rejected
\* the tokens with an error value
C8_Witness ==
  /\ pc = "parsed"
  /\ lexed.status = "Ok"
  /\ \E i \in DOMAIN lexed.out : lexed.out[i].kind = "Comma"
  /\ \E i \in DOMAIN lexed.out :
       /\ lexed.out[i].kind = "Parens"
       /\ \E j \in DOMAIN lexed.out[i].children :
            lexed.out[i].children[j].kind = "Comma"
  /\ parsed.status = "Err"

\* the first character that no production matches, in a text without
\* literals and comments whose ')' before it all close a '('
FirstUnrecognized(s) ==
  CHOOSE i \in DOMAIN s : s[i] = "#" /\ \A j \in 1..(i - 1) : s[j] # "#"

FailsAtUnrecognized(s) ==
  /\ NoLiteralNoComment(s)
  /\ \A i \in DOMAIN s : s[i] # "*"
  /\ \E i \in DOMAIN s : s[i] = "#"
  /\ \A j \in 1..FirstUnrecognized(s) : DepthBefore(s, j) >= 0

\* C9: when tokenize fails at a character that no production matches, the
\* input suffix carried by the error starts at that character, at any
\* nesting depth.
C9_ErrorStartsAtCharacter ==
  (pc # "ready" /\ FailsAtUnrecognized(text)) =>
    /\ lexed.status = "Error"
    /\ lexed.err.input = Drop(text, FirstUnrecognized(text) - 1)

\* C10: a double quote, a body without double quote and a double quote
\* tokenize to exactly Literal(body); an opening double quote that is never
\* closed makes tokenize fail.
C10_LiteralBodyVerbatim ==
  (pc # "ready" /\ Len(text) >= 1 /\ text[1] = "\"") =>
    /\ (Len(text) >= 2 /\ Count(text, "\"") = 2 /\ text[Len(text)] = "\"") =>
         /\ lexed.status = "Ok"
         /\ lexed.out = <<Literal(SubSeq(text, 2, Len(text) - 1))>>
    /\ Count(text, "\"") = 1 => lexed.status = "Error"

\* a literal whose body is ")(" came out as one Literal token
C10_Witness ==
  /\ pc = "tokenized"
  /\ text = <<"\"", ")", "(", "\"">>
  /\ lexed.out = <<Literal(<<")", "(">>)>>

\* the first character that can open a comment
HasCommentStart(s) == \E i \in DOMAIN s : s[i] \in {"-", "/"}

CommentStart(s) ==
  CHOOSE i \in DOMAIN s :
    s[i] \in {"-", "/"} /\ \A j \in 1..(i - 1) : s[j] \notin {"-", "/"}

StartsWith(s, i, t) == i + Len(t) - 1 <= Len(s) /\ SubSeq(s, i, i + Len(t) - 1) = t

\* the last position of the line comment that opens at i
LineCommentEnd(s, i) ==
  IF \E j \in (i + 2)..Len(s) : s[j] = "\n"
  THEN CHOOSE j \in (i + 2)..Len(s) :
         s[j] = "\n" /\ \A k \in (i + 2)..(j - 1) : s[k] # "\n"
  ELSE Len(s)

\* the position of the first "*/" behind the "/*" that opens at i, or 0
BlockCommentClose(s, i) ==
  IF \E j \in (i + 2)..Len(s) : StartsWith(s, j, <<"*","/">>)
  THEN CHOOSE j \in (i + 2)..Len(s) :
         /\ StartsWith(s, j, <<"*","/">>)
         /\ \A k \in (i + 2)..(j - 1) : ~StartsWith(s, k, <<"*","/">>)
  ELSE 0

\* the body between "/*" at i and "*/" at j has neither '*' nor '/'
PlainBody(s, i, j) == \A k \in (i + 2)..(j - 1) : s[k] \notin {"*", "/"}

NoCommentNoLiteral(s) == \A i \in DOMAIN s : s[i] \notin {"-", "/", "*", "\""}

\* the text with the positions i..j replaced by a single space
WithSpaceFor(s, i, j) == Take(s, i - 1) \o <<" ">> \o Drop(s, j)

SameTokens(a, b) == a.status = b.status /\ a.out = b.out

\* what C11 says of a text whose first comment opens at i and ends at j
CommentActsAsSpace(s, i, j) ==
  (NoCommentNoLiteral(Take(s, i - 1)) /\ NoCommentNoLiteral(Drop(s, j))) =>
    /\ SameTokens(lexed, tokenize(WithSpaceFor(s, i, j)))
    /\ (i = 1 /\ j = Len(s)) => (lexed.status = "Ok" /\ lexed.out = <<>>)

\* C11: a line comment (to the newline or the end of input) and a block
\* comment with a body of any length free of '*' and '/' tokenize to nothing:
\* the tokens are those of the text with the comment replaced by a space; a
\* block comment whose body has '*' or '/' before the closing "*/" fails.
C11_CommentsProduceNoToken ==
  (pc # "ready" /\ HasCommentStart(text)) =>
    LET i == CommentStart(text)
        j == BlockCommentClose(text, i) IN
    /\ StartsWith(text, i, <<"-","-">>) =>
         CommentActsAsSpace(text, i, LineCommentEnd(text, i))
    /\ (StartsWith(text, i, <<"/","*">>) /\ j > 0) =>
         IF PlainBody(text, i, j)
         THEN CommentActsAsSpace(text, i, j + 1)
         ELSE lexed.status = "Error"

RECURSIVE ResolvedAtEveryDepth(_)
\* keyword resolution finds nothing left to do in ts nor in any group of it
ResolvedAtEveryDepth(ts) ==
  /\ resolve_keywords(ts).out = ts
  /\ \A i \in DOMAIN ts :
       ts[i].kind = "Parens" => ResolvedAtEveryDepth(ts[i].children)

IsNotIdentifier(tok) == tok.kind # "Identifier"

PassedThrough(tok) == tok.kind \in {"Parens", "Literal", "Comma"}

\* C12: keyword resolution is applied at every nesting depth: the children of
\* every Parens token are resolved, the outer pass leaves Parens, Keyword,
\* Literal and Comma tokens unchanged, and a "left" in front of a group is
\* never joined with a "join" inside the group.
C12_ResolvedAtEveryDepth ==
  pc # "ready" =>
    LET f == FlatTokens(text)
        r == resolve_keywords(f).out IN
    /\ \A i \in DOMAIN f :
         f[i].kind = "Parens" => ResolvedAtEveryDepth(f[i].children)
    /\ SelectSeq(r, PassedThrough) = SelectSeq(f, IsNotIdentifier)
    /\ lexed.status = "Ok" =>
         /\ ResolvedAtEveryDepth(lexed.out)
         /\ resolve_keywords(lexed.out).out = lexed.out
    /\ \A i \in 1..(Len(f) - 1) :
         (IsWord(f[i], WordLeft) /\ f[i + 1].kind = "Parens") =>
           \E k \in 1..(Len(r) - 1) : r[k] = f[i] /\ r[k + 1] = f[i + 1]

\* "left ( JOIN )": the identifier stays, the group holds Keyword JOIN
C12_Witness ==
  /\ pc = "tokenized"
  /\ text = JoinWords(<< <<"l","e","f","t">>, <<"(">>, <<"J","O","I","N">>, <<")">> >>)
  /\ lexed.out = <<Identifier(WordLeft), Parens(<<Keyword(UpperJoin)>>)>>

IsReserved(w) == \E p \in ReservedWords : IsCaseVariant(w, p)

RECURSIVE KeywordsCanonical(_)
\* at every depth: Keyword texts are the five phrases in upper case and no
\* Identifier spells a reserved word
KeywordsCanonical(ts) ==
  \A i \in DOMAIN ts :
    /\ ts[i].kind = "Keyword" => ts[i].text \in Range(UpperPhrases)
    /\ ts[i].kind = "Identifier" => ~IsReserved(ts[i].text)
    /\ ts[i].kind = "Parens" => KeywordsCanonical(ts[i].children)

\* the text is SELECT c FROM t, in any case, with c or t a reserved word
HasReservedName(s) ==
  LET ws == split(s) IN
  /\ Len(ws) = 4
  /\ IsCaseVariant(ws[1], KeywordTable[1])
  /\ IsCaseVariant(ws[3], KeywordTable[2])
  /\ IsReserved(ws[2]) \/ IsReserved(ws[4])

\* C13: in every successful tokenize result, at every depth, each Keyword
\* text is one of SELECT, FROM, WHERE, LEFT JOIN, JOIN and no Identifier
\* equals select, from, where or join in any letter case; so parse rejects a
\* query whose column or table name is one of these words.
C13_KeywordsCanonical ==
  /\ (pc # "ready" /\ lexed.status = "Ok") => KeywordsCanonical(lexed.out)
  /\ (pc = "parsed" /\ HasReservedName(text)) => parsed.status = "Err"

\* SELECT wHeRe FROM t: the column became Keyword WHERE and parse failed
C13_Witness ==
  /\ pc = "parsed"
  /\ text = JoinWords(<<KwSELECT, <<"w","H","e","R","e">>, KwFROM, <<"t">> >>)
  /\ lexed.out[2] = Keyword(<<"W","H","E","R","E">>)
  /\ parsed.status = "Err"
  /\ parsed.err = ErrIdentifier

====
